---- MODULE Spec2Model ----
(***************************************************************************)
(* IntentService of ovos_core/intent_services/__init__.py: the utterance   *)
(* dispatch pipeline, the validation of the session of an utterance and    *)
(* the context handlers, run by concurrent bus handlers over one shared    *)
(* session store.                                                          *)
(***************************************************************************)
EXTENDS Integers, Sequences, FiniteSets, TLC

\* ------------------------------------------------------------------ bounds

\* Entities a Context Stack holds at most in the model.
MaxContext == 1

\* A session expires when more than this many ticks passed since its touch.
ExpirationSeconds == 0

\* ------------------------------------------------------------------- data

\* The bus runs each handler on a thread of a pool; two of them at a time.
Handlers == {"h1", "h2"}

SessionIds == {"default", "s1"}

Skills == {"skillA", "skillB"}

ConfigLang == "en-us"

ValidLangs == {"en-us", "es-es"}

Absent == "absent"

\* The keys of the stage registry built by get_pipeline.
MatcherNames ==
    {"converse", "padatious_high", "padacioso_high", "adapt", "common_qa",
     "fallback_high", "padatious_medium", "padacioso_medium",
     "fallback_medium", "padatious_low", "padacioso_low", "fallback_low"}

DefaultPipeline == <<"converse", "adapt", "fallback_low">>

\* The pipeline lists a client session carries; the last one names a stage
\* the registry does not know.
ClientPipelines ==
    {<<"adapt", "converse">>, <<"adapt", "bogus_stage", "fallback_low">>}

\* The metadata of the utterances the model delivers: the language keys of
\* the message context, and the lang the message itself carries.
PlainContext ==
    [stt_lang |-> Absent, request_lang |-> Absent, detected_lang |-> Absent,
     lang |-> Absent]

UtteranceContexts ==
    {PlainContext,
     [stt_lang |-> "xx-xx", request_lang |-> "es", detected_lang |-> Absent,
      lang |-> Absent]}

\* The values a language key is given where the language is what is studied:
\* a short code, a full code, a language that is not enabled, or no key.
Signals == {Absent, "en", "es-es", "xx-xx"}

LangContexts ==
    [stt_lang : Signals, request_lang : Signals, detected_lang : Signals,
     lang : {Absent, "es", "xx-xx"}]

Contexts == {"kitchen"}

\* The context events where the Context Stack is what is studied: two
\* contexts, with a word or without, and stacks of up to CtxDepth entries.
CtxContexts == {"kitchen", "hall"}

CtxWords == {"there", Absent}

CtxDepth == 2

Words == {"there"}

IntentName == "skillA:intent"

\* message.data and the payload of a match: dicts over these keys, a key
\* that is not in the dict being Absent.
NoData == [utterances |-> Absent, utterance |-> Absent, slot |-> Absent]

\* The data of the utterances the model follows through the pipeline.
PlainData == [NoData EXCEPT !.utterances = "hello"]

\* The data of an utterance event where the outbound data is what is
\* studied: with or without an utterance key and a slot of its own.
Datas == [utterances : {"hello"}, utterance : {Absent, "old"}, slot : {Absent, "asked"}]

\* The payloads of a match.
Payloads == [utterances : {Absent}, utterance : {Absent, "matched"}, slot : {Absent, "filled"}]

\* What a stage returns on a match: IntentMatch, with the string "None" for
\* a field that is None.
IntentMatch(t, s) ==
    [found |-> TRUE, intent_service |-> "unset", intent_type |-> t, skill_id |-> s,
     intent_data |-> NoData, utterance |-> "hello"]

MatchResults ==
    {IntentMatch(IntentName, "skillA"), IntentMatch("None", "skillB"),
     IntentMatch(IntentName, "None"), IntentMatch("None", "None")}

\* The matches of an intent, with every payload.
DataMatches ==
    {[IntentMatch(IntentName, s) EXCEPT !.intent_data = p] :
        s \in {"skillA", "None"}, p \in Payloads}

\* The matches that name a skill.
SkillMatches == {IntentMatch(IntentName, "skillA"), IntentMatch("None", "skillB")}

NoMatch ==
    [found |-> FALSE, intent_service |-> "None", intent_type |-> "None",
     skill_id |-> "None", intent_data |-> NoData, utterance |-> "None"]

\* The serialized form of a session; session_id "none" stands for no session.
NoSessionData ==
    [session_id |-> "none", lang |-> "none", active_skills |-> <<>>,
     context |-> <<>>, pipeline |-> <<>>]

NoObj ==
    [session_id |-> "none", lang |-> "none", active_skills |-> <<>>,
     context |-> <<>>, pipeline |-> <<>>, age |-> 0]

ObjIds == 1 .. (Cardinality(SessionIds) + Cardinality(Handlers) + 1)

VARIABLES
    heap,       \* the Session objects, by identity
    sessions,   \* SessionManager.sessions: session id -> object
    pc,         \* each handler's position in handle_utterance
    msg,        \* each handler's message
    lang,       \* each handler's local lang
    sess,       \* each handler's local sess (an object, 0 when unset)
    updated,    \* the local updated of _validate_session
    pipeline,   \* the list get_pipeline returned
    calls,      \* the stages invoked for the utterance, with their answers
    match,      \* the local match
    emitted,    \* the events the handler published for the utterance
    info,       \* what the handling went through (expiry, fault, activation)
    padatious_service   \* self.padatious_service, "None" when not installed

vars ==
    <<heap, sessions, pc, msg, lang, sess, updated, pipeline, calls, match,
      emitted, info, padatious_service>>

\* ------------------------------------------------------------ the session

Session(sid, l, p) ==
    [session_id |-> sid, lang |-> l, active_skills |-> <<>>, context |-> <<>>,
     pipeline |-> p, age |-> 0]

expired(o) == o.age > ExpirationSeconds

touch(o) == [o EXCEPT !.age = 0]

serialize(o) ==
    [session_id |-> o.session_id, lang |-> o.lang,
     active_skills |-> o.active_skills, context |-> o.context,
     pipeline |-> o.pipeline]

deserialize(d) ==
    [session_id |-> d.session_id, lang |-> d.lang,
     active_skills |-> d.active_skills, context |-> d.context,
     pipeline |-> d.pipeline, age |-> 0]

RECURSIVE Without(_, _)
Without(s, x) ==
    IF s = <<>> THEN <<>>
    ELSE IF Head(s) = x THEN Without(Tail(s), x)
    ELSE <<Head(s)>> \o Without(Tail(s), x)

\* An activation that pushes the id without looking for it in the stack.
activate_skill_push(o, skill_id) == [o EXCEPT !.active_skills = <<skill_id>> \o @]

activate_skill(o, skill_id) ==
    [o EXCEPT !.active_skills = <<skill_id>> \o Without(o.active_skills, skill_id)]

\* ------------------------------------------------------ the session store

Range(s) == {s[i] : i \in 1 .. Len(s)}

Live(sessions_, sess_) ==
    ({sessions_[s] : s \in SessionIds} \cup {sess_[h] : h \in Handlers}) \ {0}

\* The references to objects, in a fixed order: the store's, then the handlers'.
Roots(sessions_, sess_) ==
    <<sessions_["default"], sessions_["s1"], sess_["h1"], sess_["h2"]>>

\* Objects have no address the program reads: they are numbered in the order
\* of the references to them, and one nothing refers to any more is dropped.
Rank(r, o) ==
    LET first == CHOOSE i \in 1 .. Len(r) : r[i] = o /\ \A j \in 1 .. (i - 1) : r[j] # o
    IN  Cardinality({r[j] : j \in 1 .. first} \ {0})

Commit(heap_, sessions_, sess_) ==
    LET r == Roots(sessions_, sess_)
        live == Range(r) \ {0}
        new(o) == IF o = 0 THEN 0 ELSE Rank(r, o)
    IN  /\ heap' = [n \in ObjIds |->
                       IF \E o \in live : Rank(r, o) = n
                       THEN heap_[CHOOSE o \in live : Rank(r, o) = n]
                       ELSE NoObj]
        /\ sessions' = [s \in SessionIds |-> new(sessions_[s])]
        /\ sess' = [h \in Handlers |-> new(sess_[h])]

NewObj ==
    CHOOSE o \in ObjIds \ Live(sessions, sess) :
        \A p \in ObjIds \ Live(sessions, sess) : o <= p

\* SessionManager.get(message): the default session itself; the session a
\* message carries, made the record of its id; else the record of the id.
SessionManager_get(m) ==
    IF m.session_id = "default"
    THEN [obj |-> sessions["default"], heap |-> heap, sessions |-> sessions]
    ELSE IF m.session.session_id # "none"
    THEN [obj |-> NewObj,
          heap |-> [heap EXCEPT ![NewObj] = deserialize(m.session)],
          sessions |-> [sessions EXCEPT ![m.session_id] = NewObj]]
    ELSE [obj |-> sessions[m.session_id], heap |-> heap, sessions |-> sessions]

\* ---------------------------------------------------------------- language

get_full_lang_code(v) ==
    CASE v = "en" -> "en-us"
      [] v = "es" -> "es-es"
      [] OTHER -> v

\* The lang the message carries, or else the configured one.
get_message_lang(m) ==
    IF m.context.lang # Absent THEN get_full_lang_code(m.context.lang) ELSE ConfigLang

\* A scan that reads the keys in the opposite order.
LangKeysReversed == <<"detected_lang", "request_lang", "stt_lang">>

\* Lines 185-187: lang_keys.
LangKeys == <<"stt_lang", "request_lang", "detected_lang">>

\* A scan that gives up at the first key that is present: its value if it
\* is enabled, the default if it is not.
disambiguate_stop(m, k) ==
    LET present == {i \in 1 .. Len(LangKeys) : m.context[LangKeys[i]] # Absent}
        first == CHOOSE i \in present : \A j \in present : i <= j
        v == get_full_lang_code(m.context[LangKeys[first]])
    IN  IF present # {} /\ v \in ValidLangs THEN v ELSE get_message_lang(m)

RECURSIVE disambiguate_from(_, _)
disambiguate_from(m, k) ==
    IF k > Len(LangKeys) THEN get_message_lang(m)
    ELSE IF m.context[LangKeys[k]] # Absent
            /\ get_full_lang_code(m.context[LangKeys[k]]) \in ValidLangs
    THEN get_full_lang_code(m.context[LangKeys[k]])
    ELSE disambiguate_from(m, k + 1)

disambiguate_lang(m) == disambiguate_from(m, 1)

\* ---------------------------------------------------------------- pipeline

\* A filter that keeps the skipped names.
SelectAll(s, skips) == s

RECURSIVE SelectSeq2(_, _)
SelectSeq2(s, skips) ==
    IF s = <<>> THEN <<>>
    ELSE IF Head(s) \in skips THEN SelectSeq2(Tail(s), skips)
    ELSE <<Head(s)>> \o SelectSeq2(Tail(s), skips)

\* A lookup that passes over the names the registry does not hold.
get_pipeline_lenient(skips, o) ==
    [raised |-> FALSE, stages |-> SelectSeq2(o.pipeline, skips)]

\* get_pipeline: the names of the session's list outside skips; resolving a
\* name the registry does not hold raises KeyError, for the whole list.
get_pipeline(skips, o) ==
    LET names == SelectSeq2(o.pipeline, skips)
    IN  [raised |-> \E i \in 1 .. Len(names) : names[i] \notin MatcherNames,
         stages |-> names]

\* A lookup that takes padatious for installed whatever __init__ found.
padatious_matcher_installed == "PadatiousMatcher"

\* Lines 207-214: the padacioso service stands in for the padatious matcher
\* where padatious is not installed.
padatious_matcher ==
    IF padatious_service = "None" THEN "padacioso_service" ELSE "PadatiousMatcher"

\* Lines 217-230: matchers[k], the object and the method a stage name
\* stands for.
matchers(k) ==
    CASE k = "converse" -> <<"converse", "converse_with_skills">>
      [] k = "padatious_high" -> <<padatious_matcher, "match_high">>
      [] k = "padacioso_high" -> <<"padacioso_service", "match_high">>
      [] k = "adapt" -> <<"adapt_service", "match_intent">>
      [] k = "common_qa" -> <<"common_qa", "match">>
      [] k = "fallback_high" -> <<"fallback", "high_prio">>
      [] k = "padatious_medium" -> <<padatious_matcher, "match_medium">>
      [] k = "padacioso_medium" -> <<"padacioso_service", "match_medium">>
      [] k = "fallback_medium" -> <<"fallback", "medium_prio">>
      [] k = "padatious_low" -> <<padatious_matcher, "match_low">>
      [] k = "padacioso_low" -> <<"padacioso_service", "match_low">>
      [] k = "fallback_low" -> <<"fallback", "low_prio">>

\* ------------------------------------------------------------------ events

\* An event on the bus: its type and, for a resync broadcast, the active
\* skills of the session data it carries.
Event(t, skills) == [type |-> t, active_skills |-> skills]

Count(s, t) == Cardinality({i \in 1 .. Len(s) : s[i].type = t})

SyncEvent == "ovos.session.update_default"

\* SessionManager.sync(message): the default session, serialized.
sync(heap_, sessions_) ==
    Event(SyncEvent, serialize(heap_[sessions_["default"]]).active_skills)

\* What the handling of an utterance went through: whether _validate_session
\* found the session expired, the lang the session had then, the fault
\* raised, whether a skill was activated, and whether the utterance before
\* it on this thread ended in a fault.
NoInfo ==
    [expired |-> FALSE, lang0 |-> "None", fault |-> "none", activated |-> FALSE,
     after_fault |-> FALSE, data0 |-> NoData, context0 |-> PlainContext,
     locale |-> "unset",
     tu |-> [utterances |-> Absent, detected_lang |-> Absent],
     tm |-> [utterances |-> Absent, detected_lang |-> Absent]]

NoMessage ==
    [type |-> "None", session_id |-> "default",
     context |-> PlainContext, data |-> NoData,
     session |-> NoSessionData, skill_id |-> "None"]

\* ------------------------------------------------------------------- Init

\* The stacks of active skills a session can hold: each skill at most once.
SkillStacks ==
    {s \in UNION {[1 .. n -> Skills] : n \in 0 .. Cardinality(Skills)} :
        \A i, j \in 1 .. Len(s) : i # j => s[i] # s[j]}

\* The store holds the default session and the session of a client, whose
\* pipeline is one of pipelines; their active skills are among stacks; the
\* padatious service is one of services.
InitOf(pipelines, stacks, services) ==
    /\ padatious_service \in services
    /\ \E p \in pipelines, d \in stacks, c \in stacks :
          heap = [o \in ObjIds |->
                    CASE o = 1 -> [Session("default", ConfigLang, DefaultPipeline)
                                     EXCEPT !.active_skills = d]
                      [] o = 2 -> [Session("s1", ConfigLang, p)
                                     EXCEPT !.active_skills = c]
                      [] OTHER -> NoObj]
    /\ sessions = [s \in SessionIds |-> IF s = "default" THEN 1 ELSE 2]
    /\ pc = [h \in Handlers |-> "idle"]
    /\ msg = [h \in Handlers |-> NoMessage]
    /\ lang = [h \in Handlers |-> "None"]
    /\ sess = [h \in Handlers |-> 0]
    /\ updated = [h \in Handlers |-> FALSE]
    /\ pipeline = [h \in Handlers |-> <<>>]
    /\ calls = [h \in Handlers |-> <<>>]
    /\ match = [h \in Handlers |-> NoMatch]
    /\ emitted = [h \in Handlers |-> <<>>]
    /\ info = [h \in Handlers |-> NoInfo]

\* Lines 64-66: padatious is installed.
InitWith(pipelines, stacks) == InitOf(pipelines, stacks, {"PadatiousService"})

\* The state after construction: no skill is active yet.
Init == InitWith(ClientPipelines, {<<>>})

\* ---------------------------------------------------------- handle_utterance

\* A handler written to catch only the faults of the stages.
CaughtStageOnly(kind) == kind = "stage"

\* except Exception: every fault raised beneath handle_utterance is caught,
\* logged, and the handler returns.
Caught(kind) == TRUE

Raise(h, kind) ==
    /\ pc' = [pc EXCEPT ![h] = IF Caught(kind) THEN "done" ELSE "crashed"]
    /\ info' = [info EXCEPT ![h].fault = kind]
    /\ Commit(heap, sessions, [sess EXCEPT ![h] = 0])

\* The bus delivers recognizer_loop:utterance to a free handler.
ReceiveWith(h, contexts, datas) ==
    /\ pc[h] = "idle"
    /\ \E sid \in SessionIds, c \in contexts, d \in datas :
          /\ msg' = [msg EXCEPT ![h] = [type |-> "recognizer_loop:utterance",
                                        session_id |-> sid, context |-> c, data |-> d,
                                        session |-> NoSessionData, skill_id |-> "None"]]
          /\ info' = [info EXCEPT ![h].data0 = d, ![h].context0 = c]
    /\ pc' = [pc EXCEPT ![h] = "preprocess"]
    /\ UNCHANGED <<heap, sessions, lang, sess, updated, pipeline, calls, match, emitted>>
    /\ UNCHANGED padatious_service

Receive(h, contexts) == ReceiveWith(h, contexts, {PlainData})

\* What a transformer plugin chain does to its input: the utterances it
\* returns and the detected_lang it tags the context with, Absent where it
\* leaves its input as it is.
Transform(u, l) == [utterances |-> u, detected_lang |-> l]

NoTransform == Transform(Absent, Absent)

\* The plugin chains where the transformers are what is studied.
UtteranceTransforms == {NoTransform, Transform("hola", Absent), Transform("hola", "es-es")}

MetadataTransforms == {NoTransform, Transform(Absent, "en"), Transform(Absent, "xx-xx")}

\* utterance_plugins.transform and metadata_plugins.transform.
transform_utterances(t, u) == IF t.utterances = Absent THEN u ELSE t.utterances

transform_context(t, c) ==
    IF t.detected_lang = Absent THEN c ELSE [c EXCEPT !.detected_lang = t.detected_lang]

\* A fold that leaves the utterances of the message as they came.
fold_never(data, utterances) == data

\* Lines 168-170: if original != utterances: message.data["utterances"] =
\* utterances.
fold_utterances(data, utterances) ==
    IF data.utterances # utterances THEN [data EXCEPT !.utterances = utterances]
    ELSE data

\* Lines 160-173: the message after _handle_transformers, with tu the
\* utterance plugins and tm the metadata plugins.
handle_transformers(m, tu, tm) ==
    LET c1 == [m.context EXCEPT !.lang = get_message_lang(m)]
        utterances == transform_utterances(tu, m.data.utterances)
        c2 == transform_context(tu, c1)
    IN  [m EXCEPT !.data = fold_utterances(m.data, utterances),
                  !.context = transform_context(tm, c2)]

\* Lines 286-287: message = self._handle_transformers(message).
PreprocessWith(h, faults, tus, tms) ==
    /\ pc[h] = "preprocess"
    /\ \/ /\ \E tu \in tus, tm \in tms :
                /\ msg' = [msg EXCEPT ![h] = handle_transformers(@, tu, tm)]
                /\ info' = [info EXCEPT ![h].tu = tu, ![h].tm = tm]
          /\ pc' = [pc EXCEPT ![h] = "lang"]
          /\ UNCHANGED <<heap, sessions, sess>>
       \/ "transformer" \in faults /\ Raise(h, "transformer") /\ UNCHANGED msg
    /\ UNCHANGED <<lang, updated, pipeline, calls, match, emitted>>
    /\ UNCHANGED padatious_service

Preprocess(h, faults) == PreprocessWith(h, faults, {NoTransform}, {NoTransform})

\* A handler without the try block around setup_locale: the fault goes to
\* the except clause of handle_utterance.
locale_fault_propagates(outcome) == outcome = "failed"

\* Lines 291-294: try: setup_locale(lang) except Exception: the fault is
\* logged and goes no further.
locale_fault_leaves(outcome) == FALSE

\* Lines 289-294: lang = self.disambiguate_lang(message), then
\* setup_locale(lang), which does one of outcomes: it sets the locale or it
\* raises. Nothing in handle_utterance reads the locale afterwards.
DisambiguateWith(h, outcomes) ==
    /\ pc[h] = "lang"
    /\ lang' = [lang EXCEPT ![h] = disambiguate_lang(msg[h])]
    /\ \E outcome \in outcomes :
          IF locale_fault_leaves(outcome)
          THEN /\ pc' = [pc EXCEPT ![h] = IF Caught("locale") THEN "done" ELSE "crashed"]
               /\ info' = [info EXCEPT ![h].fault = "locale", ![h].locale = outcome]
          ELSE /\ pc' = [pc EXCEPT ![h] = "v_get"]
               /\ info' = [info EXCEPT ![h].locale = outcome]
    /\ UNCHANGED <<heap, sessions, msg, sess, updated, pipeline, calls, match,
                   emitted>>
    /\ UNCHANGED padatious_service

Disambiguate(h) == DisambiguateWith(h, {"set"})

\* ------------------------------------------------------- _validate_session

\* A test that sends every session down the default branch.
is_default_always(o) == TRUE

\* Lines 238 and 338: sess.session_id == "default".
is_default(o) == o.session_id = "default"

\* Line 237: sess = SessionManager.get(message).
ValidateGet(h, faults) ==
    /\ pc[h] = "v_get"
    /\ \/ LET r == SessionManager_get(msg[h])
          IN  /\ Commit(r.heap, r.sessions, [sess EXCEPT ![h] = r.obj])
              /\ pc' = [pc EXCEPT ![h] =
                          IF is_default(r.heap[r.obj]) THEN "v_check" ELSE "v_lang"]
              /\ UNCHANGED info
       \/ "session" \in faults /\ Raise(h, "session")
    /\ UNCHANGED <<msg, lang, updated, pipeline, calls, match, emitted>>
    /\ UNCHANGED padatious_service

\* A reset that forgets to mark the session updated.
updated_never(o) == FALSE

\* Lines 239-243: updated is False unless the session had expired.
updated_after_check(o) == expired(o)

\* Lines 239-243: updated = False; an expired default session is replaced
\* by the record reset_default_session creates.
ValidateCheck(h) ==
    /\ pc[h] = "v_check"
    /\ IF expired(heap[sess[h]])
       THEN LET o == NewObj
                fresh == Session("default", ConfigLang, DefaultPipeline)
            IN  /\ Commit([heap EXCEPT ![o] = fresh],
                          [sessions EXCEPT !["default"] = o],
                          [sess EXCEPT ![h] = o])
       ELSE UNCHANGED <<heap, sessions, sess>>
    /\ updated' = [updated EXCEPT ![h] = updated_after_check(heap[sess[h]])]
    /\ info' = [info EXCEPT ![h].expired = expired(heap[sess[h]]),
                            ![h].lang0 = heap[sess[h]].lang]
    /\ pc' = [pc EXCEPT ![h] = "v_lang"]
    /\ UNCHANGED <<msg, lang, pipeline, calls, match, emitted>>
    /\ UNCHANGED padatious_service

\* Lines 244-246 (default: only a different lang is stored, and marks the
\* session updated) and line 251 (any other session: stored always).
ValidateLang(h) ==
    /\ pc[h] = "v_lang"
    /\ LET o == sess[h]
           isDefault == is_default(heap[o])
           differs == lang[h] # heap[o].lang
           upd == IF isDefault THEN updated[h] \/ differs ELSE updated[h]
       IN  /\ heap' = IF isDefault /\ ~differs THEN heap
                      ELSE [heap EXCEPT ![o].lang = lang[h]]
           /\ updated' = [updated EXCEPT ![h] = upd]
           /\ pc' = [pc EXCEPT ![h] =
                       IF isDefault /\ ~upd THEN "v_touch" ELSE "v_update"]
    /\ UNCHANGED <<sessions, msg, lang, sess, pipeline, calls, match, emitted, info>>
    /\ UNCHANGED padatious_service

\* Lines 248 and 252: SessionManager.update(sess) makes sess the record of
\* its id.
ValidateUpdate(h) ==
    /\ pc[h] = "v_update"
    /\ LET o == sess[h]
           sid == heap[o].session_id
       IN  /\ Commit(heap, [sessions EXCEPT ![sid] = o], sess)
           /\ pc' = [pc EXCEPT ![h] = IF is_default(heap[o]) THEN "v_sync" ELSE "v_touch"]
    /\ UNCHANGED <<msg, lang, updated, pipeline, calls, match, emitted, info>>
    /\ UNCHANGED padatious_service

\* A validation that updates the store without the broadcast.
ValidateSyncSilent(h) ==
    /\ pc[h] = "v_sync"
    /\ pc' = [pc EXCEPT ![h] = "v_touch"]
    /\ UNCHANGED <<heap, sessions, msg, lang, sess, updated, pipeline, calls, match,
                   emitted, info>>
    /\ UNCHANGED padatious_service

\* Line 249: SessionManager.sync(message).
ValidateSync(h) ==
    /\ pc[h] = "v_sync"
    /\ emitted' = [emitted EXCEPT ![h] = Append(@, sync(heap, sessions))]
    /\ pc' = [pc EXCEPT ![h] = "v_touch"]
    /\ UNCHANGED <<heap, sessions, msg, lang, sess, updated, pipeline, calls, match, info>>
    /\ UNCHANGED padatious_service

\* A validation that returns the session without touching it.
ValidateNoTouch(h) ==
    /\ pc[h] = "v_touch"
    /\ pc' = [pc EXCEPT ![h] = "prepare"]
    /\ UNCHANGED <<heap, sessions, msg, lang, sess, updated, pipeline, calls, match,
                   emitted, info>>
    /\ UNCHANGED padatious_service

\* Lines 253-254: sess.touch(); return sess.
ValidateTouch(h) ==
    /\ pc[h] = "v_touch"
    /\ heap' = [heap EXCEPT ![sess[h]] = touch(@)]
    /\ pc' = [pc EXCEPT ![h] = "prepare"]
    /\ UNCHANGED <<sessions, msg, lang, sess, updated, pipeline, calls, match, emitted, info>>
    /\ UNCHANGED padatious_service

\* ---------------------------------------------------------- handle_utterance

\* A test that takes every match to name an intent.
HasIntentTypeAlways(m) == TRUE

\* Line 323: if match.intent_type.
HasIntentType(m) == m.intent_type # "None"

\* A handler that emits the intent without activating the skill.
AfterLoopNoActivate(m) ==
    IF m.found
    THEN IF m.intent_type # "None" THEN "emit" ELSE "final"
    ELSE "failure"

\* Lines 314-335: where the handler goes once the stage loop has ended.
AfterLoop(m) ==
    IF m.found
    THEN IF m.skill_id # "None" THEN "activate"
         ELSE IF HasIntentType(m) THEN "emit" ELSE "final"
    ELSE "failure"

\* Lines 302 and 308: the session is serialized into the message context and
\* get_pipeline(session=sess) builds the stage list.
Prepare(h) ==
    /\ pc[h] = "prepare"
    /\ LET o == heap[sess[h]]
           p == get_pipeline({}, o)
       IN  IF p.raised
           THEN /\ Raise(h, "config")
                /\ msg' = [msg EXCEPT ![h].session = serialize(o)]
                /\ UNCHANGED pipeline
           ELSE /\ msg' = [msg EXCEPT ![h].session = serialize(o)]
                /\ pipeline' = [pipeline EXCEPT ![h] = p.stages]
                /\ pc' = [pc EXCEPT ![h] =
                            IF p.stages = <<>> THEN AfterLoop(NoMatch) ELSE "match"]
                /\ UNCHANGED <<heap, sessions, sess, info>>
    /\ UNCHANGED <<lang, updated, calls, match, emitted>>
    /\ UNCHANGED padatious_service

\* Lines 314-315: if match: message.data["utterance"] = match.utterance.
StampUtterance(data, m) ==
    IF m.found THEN [data EXCEPT !.utterance = m.utterance] ELSE data

\* A loop that goes on to the stages after the one that answered.
BreakNever(a) == FALSE

\* Lines 310-311: if match: break.
Break(a) == a.found

\* A call that hands the stage the lang the message came with.
stage_call_message_lang(stage, a, m, l) ==
    [stage |-> stage, matcher |-> matchers(stage), answer |-> a,
     utterances |-> m.data.utterances, lang |-> get_message_lang(m)]

\* Lines 296 and 309: match_func(utterances, lang, message), with utterances
\* read from message.data after the transformers.
stage_call(stage, a, m, l) ==
    [stage |-> stage, matcher |-> matchers(stage), answer |-> a,
     utterances |-> m.data.utterances, lang |-> l]

\* Lines 308-311: the next stage of the list is called with the utterances;
\* it declines, matches or raises.
RunStage(h, results, faults) ==
    /\ pc[h] = "match"
    /\ LET i == Len(calls[h]) + 1
           stage == pipeline[h][i]
       IN  \/ \E r \in {NoMatch} \cup results :
                 LET a == IF r.found THEN [r EXCEPT !.intent_service = stage] ELSE r
                     last == Break(a) \/ i = Len(pipeline[h])
                 IN  /\ calls' = [calls EXCEPT ![h] =
                                    Append(@, stage_call(stage, a, msg[h], lang[h]))]
                     /\ match' = [match EXCEPT ![h] = a]
                     /\ pc' = [pc EXCEPT ![h] = IF last THEN AfterLoop(a) ELSE "match"]
                     /\ msg' = IF last THEN [msg EXCEPT ![h].data = StampUtterance(@, a)]
                               ELSE msg
                     /\ UNCHANGED <<heap, sessions, sess, info>>
           \/ "stage" \in faults /\ Raise(h, "stage") /\ UNCHANGED <<calls, match, msg>>
    /\ UNCHANGED <<lang, updated, pipeline, emitted>>
    /\ UNCHANGED padatious_service

\* Lines 317-319: converse.activate_skill(match.skill_id, message=message)
\* marks the skill active in the session of the message; the message context
\* is stamped with the skill id.
Activate(h) ==
    /\ pc[h] = "activate"
    /\ LET r == SessionManager_get(msg[h])
           h2 == [r.heap EXCEPT ![r.obj] = activate_skill(@, match[h].skill_id)]
       IN  Commit(h2, r.sessions, sess)
    /\ msg' = [msg EXCEPT ![h].skill_id = match[h].skill_id]
    /\ info' = [info EXCEPT ![h].activated = TRUE]
    /\ pc' = [pc EXCEPT ![h] = IF HasIntentType(match[h]) THEN "emit" ELSE "final"]
    /\ UNCHANGED <<lang, updated, pipeline, calls, match, emitted>>
    /\ UNCHANGED padatious_service

\* An update in which the keys the data already has win over the payload.
update_keep(d, p) == [k \in DOMAIN d |-> IF d[k] # Absent THEN d[k] ELSE p[k]]

\* Lines 327-328: data = dict(message.data); data.update(match.intent_data).
update(d, p) == [k \in DOMAIN d |-> IF p[k] # Absent THEN p[k] ELSE d[k]]

\* Line 329: message.reply(match.intent_type, data).
reply(m, t, data) == [type |-> t, active_skills |-> <<>>, data |-> data]

\* A handler that, having emitted the intent, falls into the failure branch.
EmitIntentThenFailure(h, faults) ==
    /\ pc[h] = "emit"
    /\ emitted' = [emitted EXCEPT ![h] = Append(@, Event(match[h].intent_type, <<>>))]
    /\ pc' = [pc EXCEPT ![h] = "failure"]
    /\ UNCHANGED <<heap, sessions, msg, lang, sess, updated, pipeline, calls, match, info>>
    /\ UNCHANGED padatious_service

\* Lines 324-330: the reply addressed to the intent type is emitted.
EmitIntent(h, faults) ==
    /\ pc[h] = "emit"
    /\ \/ /\ emitted' = [emitted EXCEPT ![h] =
                            Append(@, reply(msg[h], match[h].intent_type,
                                            update(msg[h].data, match[h].intent_data)))]
          /\ pc' = [pc EXCEPT ![h] = "final"]
          /\ UNCHANGED <<heap, sessions, sess, info>>
       \/ "emit" \in faults /\ Raise(h, "emit") /\ UNCHANGED emitted
    /\ UNCHANGED <<msg, lang, updated, pipeline, calls, match>>
    /\ UNCHANGED padatious_service

\* A failure path that plays the sound only.
send_sound_only(m) == <<Event("mycroft.audio.play_sound", <<>>)>>

\* Lines 345-353: send_complete_intent_failure emits the error sound and
\* complete_intent_failure.
send_complete_intent_failure(m) ==
    <<Event("mycroft.audio.play_sound", <<>>),
      Event("complete_intent_failure", <<>>)>>

\* Lines 332-335: nothing was able to handle the intent.
EmitFailure(h, faults) ==
    /\ pc[h] = "failure"
    /\ \/ /\ emitted' = [emitted EXCEPT ![h] = @ \o send_complete_intent_failure(msg[h])]
          /\ pc' = [pc EXCEPT ![h] = "final"]
          /\ UNCHANGED <<heap, sessions, sess, info>>
       \/ "emit" \in faults /\ Raise(h, "emit") /\ UNCHANGED emitted
    /\ UNCHANGED <<msg, lang, updated, pipeline, calls, match>>
    /\ UNCHANGED padatious_service

\* A handler that returns without the last broadcast.
FinalSyncSilent(h) ==
    /\ pc[h] = "final"
    /\ pc' = [pc EXCEPT ![h] = "done"]
    /\ Commit(heap, sessions, [sess EXCEPT ![h] = 0])
    /\ UNCHANGED <<msg, lang, updated, pipeline, calls, match, emitted, info>>
    /\ UNCHANGED padatious_service

\* Lines 338-340: the default session is synced once more; return.
FinalSync(h) ==
    /\ pc[h] = "final"
    /\ emitted' = [emitted EXCEPT ![h] =
                      IF is_default(heap[sess[h]])
                      THEN Append(@, sync(heap, sessions)) ELSE @]
    /\ pc' = [pc EXCEPT ![h] = "done"]
    /\ Commit(heap, sessions, [sess EXCEPT ![h] = 0])
    /\ UNCHANGED <<msg, lang, updated, pipeline, calls, match, info>>
    /\ UNCHANGED padatious_service

\* The handler has returned and its thread goes back to the pool; the locals
\* of the call are gone.
Return(h) ==
    /\ pc[h] = "done"
    /\ pc' = [pc EXCEPT ![h] = "idle"]
    /\ msg' = [msg EXCEPT ![h] = NoMessage]
    /\ lang' = [lang EXCEPT ![h] = "None"]
    /\ updated' = [updated EXCEPT ![h] = FALSE]
    /\ pipeline' = [pipeline EXCEPT ![h] = <<>>]
    /\ calls' = [calls EXCEPT ![h] = <<>>]
    /\ match' = [match EXCEPT ![h] = NoMatch]
    /\ emitted' = [emitted EXCEPT ![h] = <<>>]
    /\ info' = [info EXCEPT ![h] = [NoInfo EXCEPT !.after_fault = info[h].fault # "none"]]
    /\ UNCHANGED <<heap, sessions, sess>>
    /\ UNCHANGED padatious_service

\* ---------------------------------------------------------- handle_get_intent

\* A query that leaves no stage out.
GetSkipsNone == {}

\* Lines 449-452: skips=["converse", "fallback_high", "fallback_medium",
\* "fallback_low"].
GetSkips == {"converse", "fallback_high", "fallback_medium", "fallback_low"}

\* The data of an intent.service.intent.get query.
GetData == [NoData EXCEPT !.utterance = "hello"]

\* The intent of a reply that carries None.
NoIntent ==
    [intent_name |-> "None", intent_service |-> "None", skill_id |-> "None",
     handler |-> "None", utterances |-> Absent, utterance |-> Absent, slot |-> Absent]

\* The bus delivers intent.service.intent.get to a free handler.
ReceiveGet(h) ==
    /\ pc[h] = "idle"
    /\ \E sid \in SessionIds :
          msg' = [msg EXCEPT ![h] = [type |-> "intent.service.intent.get",
                                     session_id |-> sid, context |-> PlainContext,
                                     data |-> GetData, session |-> NoSessionData,
                                     skill_id |-> "None"]]
    /\ pc' = [pc EXCEPT ![h] = "g_get"]
    /\ UNCHANGED <<heap, sessions, lang, sess, updated, pipeline, calls, match, emitted,
                   info, padatious_service>>

\* Lines 447-453: lang = get_message_lang(message); sess =
\* SessionManager.get(message); get_pipeline(skips, session=sess). Nothing
\* in handle_get_intent catches the KeyError of a name the registry does
\* not hold: the handler ends there.
GetPrepare(h) ==
    /\ pc[h] = "g_get"
    /\ lang' = [lang EXCEPT ![h] = get_message_lang(msg[h])]
    /\ LET r == SessionManager_get(msg[h])
           p == get_pipeline(GetSkips, r.heap[r.obj])
       IN  IF p.raised
           THEN /\ pc' = [pc EXCEPT ![h] = "done"]
                /\ info' = [info EXCEPT ![h].fault = "config"]
                /\ Commit(r.heap, r.sessions, [sess EXCEPT ![h] = 0])
                /\ UNCHANGED pipeline
           ELSE /\ pipeline' = [pipeline EXCEPT ![h] = p.stages]
                /\ pc' = [pc EXCEPT ![h] = IF p.stages = <<>> THEN "g_fail" ELSE "g_match"]
                /\ Commit(r.heap, r.sessions, [sess EXCEPT ![h] = r.obj])
                /\ UNCHANGED info
    /\ UNCHANGED <<msg, updated, calls, match, emitted, padatious_service>>

\* Lines 454-467: match = match_func([utterance], lang, message); a match
\* with an intent_type is replied to, any other match ends the handler, and
\* a stage that declines hands over to the next one. A stage that raises
\* ends the handler.
GetStage(h, results, faults) ==
    /\ pc[h] = "g_match"
    /\ LET i == Len(calls[h]) + 1
           stage == pipeline[h][i]
       IN  \/ \E r \in {NoMatch} \cup results :
                 LET a == IF r.found THEN [r EXCEPT !.intent_service = stage] ELSE r
                 IN  /\ calls' = [calls EXCEPT ![h] =
                                    Append(@, [stage |-> stage, matcher |-> matchers(stage),
                                               answer |-> a,
                                               utterances |-> msg[h].data.utterance,
                                               lang |-> lang[h]])]
                     /\ match' = [match EXCEPT ![h] = a]
                     /\ pc' = [pc EXCEPT ![h] =
                                 IF a.found
                                 THEN IF HasIntentType(a) THEN "g_reply" ELSE "done"
                                 ELSE IF i = Len(pipeline[h]) THEN "g_fail" ELSE "g_match"]
                     /\ IF a.found /\ ~HasIntentType(a)
                        THEN Commit(heap, sessions, [sess EXCEPT ![h] = 0])
                        ELSE UNCHANGED <<heap, sessions, sess>>
                     /\ UNCHANGED info
           \/ /\ "stage" \in faults
              /\ pc' = [pc EXCEPT ![h] = "done"]
              /\ info' = [info EXCEPT ![h].fault = "stage"]
              /\ Commit(heap, sessions, [sess EXCEPT ![h] = 0])
              /\ UNCHANGED <<calls, match>>
    /\ UNCHANGED <<msg, lang, updated, pipeline, emitted, padatious_service>>

\* Lines 459-463: intent_data = match.intent_data, the dict of the match
\* itself, is given four more keys.
get_intent_data(m, func) ==
    [intent_name |-> m.intent_type, intent_service |-> m.intent_service,
     skill_id |-> m.skill_id, handler |-> func[2]] @@ m.intent_data

\* Lines 459-467: the reply with the intent; return.
GetReply(h) ==
    /\ pc[h] = "g_reply"
    /\ LET d == get_intent_data(match[h], calls[h][Len(calls[h])].matcher)
       IN  /\ match' = [match EXCEPT ![h].intent_data = d]
           /\ emitted' = [emitted EXCEPT ![h] =
                             Append(@, reply(msg[h], "intent.service.intent.reply", d))]
    /\ pc' = [pc EXCEPT ![h] = "done"]
    /\ Commit(heap, sessions, [sess EXCEPT ![h] = 0])
    /\ UNCHANGED <<msg, lang, updated, pipeline, calls, info, padatious_service>>

\* Lines 469-471: the reply with no intent.
GetFail(h) ==
    /\ pc[h] = "g_fail"
    /\ emitted' = [emitted EXCEPT ![h] =
                      Append(@, reply(msg[h], "intent.service.intent.reply", NoIntent))]
    /\ pc' = [pc EXCEPT ![h] = "done"]
    /\ Commit(heap, sessions, [sess EXCEPT ![h] = 0])
    /\ UNCHANGED <<msg, lang, updated, pipeline, calls, match, info, padatious_service>>

\* One step of handle_get_intent on handler h.
HandleGet(h, results, faults) ==
    \/ ReceiveGet(h)
    \/ GetPrepare(h)
    \/ GetStage(h, results, faults)
    \/ GetReply(h)
    \/ GetFail(h)

\* The pipeline lists a session is given where the order of the stages is
\* what is studied.
PipelineLists ==
    {<<"padatious_high", "converse", "padacioso_high">>,
     <<"fallback_high", "adapt", "padatious_low">>}

\* The pipeline list of a session is replaced, between two events.
SetPipeline(sid, p) ==
    /\ \A h \in Handlers : pc[h] = "idle"
    /\ heap[sessions[sid]].pipeline # p
    /\ heap' = [heap EXCEPT ![sessions[sid]].pipeline = p]
    /\ UNCHANGED <<sessions, pc, msg, lang, sess, updated, pipeline, calls,
                   match, emitted, info, padatious_service>>

\* ------------------------------------------------------------------ context

\* A handler that looks the session up without the message.
ContextMessageDefault(sid) ==
    [session_id |-> "default", session |-> NoSessionData]

\* Lines 421, 433 and 438: SessionManager.get(message), for the message of
\* a context event.
ContextMessage(sid) ==
    [session_id |-> sid, session |-> NoSessionData]

inject_context(o, entity) == [o EXCEPT !.context = <<entity>> \o @]

RECURSIVE WithoutContext(_, _)
WithoutContext(s, c) ==
    IF s = <<>> THEN <<>>
    ELSE IF Head(s).context = c THEN WithoutContext(Tail(s), c)
    ELSE <<Head(s)>> \o WithoutContext(Tail(s), c)

remove_context(o, c) == [o EXCEPT !.context = WithoutContext(@, c)]

clear_context(o) == [o EXCEPT !.context = <<>>]

\* An entity built with the word and the context in each other's place.
entity_swapped(c, w) == [context |-> IF w = Absent THEN "" ELSE w, word |-> c]

\* Lines 410-420: the entity of an add_context event; a word that is absent
\* is the empty string.
entity(c, w) == [context |-> c, word |-> IF w = Absent THEN "" ELSE w]

\* Lines 403-423, on a stack of fewer than depth entries.
add_context_upto(depth, sid, c, w) ==
    LET r == SessionManager_get(ContextMessage(sid))
    IN  /\ Len(r.heap[r.obj].context) < depth
        /\ heap' = [r.heap EXCEPT ![r.obj] = inject_context(@, entity(c, w))]
        /\ UNCHANGED <<sessions, pc, msg, lang, sess, updated, pipeline, calls,
                       match, emitted, info, padatious_service>>

\* Lines 403-423.
handle_add_context(sid, c, w) == add_context_upto(MaxContext, sid, c, w)

\* Lines 425-434.
handle_remove_context(sid, c) ==
    LET r == SessionManager_get(ContextMessage(sid))
    IN  /\ heap' = [r.heap EXCEPT ![r.obj] = remove_context(@, c)]
        /\ UNCHANGED <<sessions, pc, msg, lang, sess, updated, pipeline, calls,
                       match, emitted, info, padatious_service>>

\* Lines 436-439.
handle_clear_context(sid) ==
    LET r == SessionManager_get(ContextMessage(sid))
    IN  /\ heap' = [r.heap EXCEPT ![r.obj] = clear_context(@)]
        /\ UNCHANGED <<sessions, pc, msg, lang, sess, updated, pipeline, calls,
                       match, emitted, info, padatious_service>>

\* --------------------------------------------------------------------- time

\* A second passes: every session is a second further from its last touch.
Tick ==
    /\ heap' = [o \in ObjIds |->
                  IF heap[o].session_id # "none" /\ heap[o].age <= ExpirationSeconds
                  THEN [heap[o] EXCEPT !.age = @ + 1] ELSE heap[o]]
    /\ UNCHANGED <<sessions, pc, msg, lang, sess, updated, pipeline, calls,
                   match, emitted, info, padatious_service>>

\* One step of handle_utterance on handler h, for utterances with the
\* metadata of contexts and stages that answer with results.
HandleWith(h, contexts, results, faults) ==
    \/ Receive(h, contexts)
    \/ Preprocess(h, faults)
    \/ Disambiguate(h)
    \/ ValidateGet(h, faults)
    \/ ValidateCheck(h)
    \/ ValidateLang(h)
    \/ ValidateUpdate(h)
    \/ ValidateSync(h)
    \/ ValidateTouch(h)
    \/ Prepare(h)
    \/ RunStage(h, results, faults)
    \/ Activate(h)
    \/ EmitIntent(h, faults)
    \/ EmitFailure(h, faults)
    \/ FinalSync(h)

\* The places beneath handle_utterance where a fault is raised.
Faults == {"transformer", "session", "stage", "emit"}

Handle(h) == HandleWith(h, UtteranceContexts, MatchResults, Faults) \/ Return(h)

\* The context events of the bus.
ContextEvent ==
    \/ \E sid \in SessionIds, c \in Contexts, w \in Words : handle_add_context(sid, c, w)
    \/ \E sid \in SessionIds, c \in Contexts : handle_remove_context(sid, c)
    \/ \E sid \in SessionIds : handle_clear_context(sid)

Next ==
    \/ \E h \in Handlers : Handle(h)
    \/ ContextEvent
    \/ Tick

Spec == Init /\ [][Next]_vars

\* The bus delivering one event at a time: one handler thread, and a context
\* event only between two utterances.
NextSeq ==
    \/ Handle("h1")
    \/ pc["h1"] = "idle" /\ ContextEvent
    \/ Tick

SpecSeq == Init /\ [][NextSeq]_vars

\* Two utterances handled concurrently by two threads of the pool, the store
\* being in any state utterances handled before can have left it in.
NextConc ==
    \/ \E h \in Handlers : HandleWith(h, {PlainContext}, SkillMatches, {})
    \/ Tick

SpecConc == InitWith({<<"adapt", "converse">>}, SkillStacks) /\ [][NextConc]_vars

\* The language of an utterance, over every combination of language keys.
NextLang ==
    \/ Receive("h1", LangContexts)
    \/ Preprocess("h1", {})
    \/ Disambiguate("h1")

SpecLang == Init /\ [][NextLang]_vars

\* One utterance after another, over every data of the event and every
\* payload of the match.
NextData ==
    \/ ReceiveWith("h1", {PlainContext}, Datas)
    \/ HandleWith("h1", {PlainContext}, DataMatches, {})
    \/ Return("h1")
    \/ Tick

SpecData == Init /\ [][NextData]_vars

\* Two utterances handled concurrently while context events arrive, each
\* for any of the sessions.
NextPar ==
    \/ \E h \in Handlers : HandleWith(h, {PlainContext}, SkillMatches, {})
    \/ ContextEvent
    \/ Tick

SpecPar == InitWith({<<"adapt", "converse">>}, {<<>>}) /\ [][NextPar]_vars

\* Either padatious is installed or it is not.
PadatiousServices == {"None", "PadatiousService"}

\* Queries and utterances, one after another, on sessions whose pipeline
\* list changes between them.
NextGet ==
    \/ HandleGet("h1", SkillMatches, {"stage"})
    \/ HandleWith("h1", {PlainContext}, SkillMatches, {})
    \/ Return("h1")
    \/ \E sid \in SessionIds, p \in PipelineLists : SetPipeline(sid, p)
    \/ Tick

SpecGet ==
    InitOf({<<"adapt", "bogus_stage", "fallback_low">>}, {<<>>}, PadatiousServices)
        /\ [][NextGet]_vars

\* One utterance after another, where setup_locale may raise.
NextLocale ==
    \/ DisambiguateWith("h1", {"set", "failed"})
    \/ HandleWith("h1", UtteranceContexts, MatchResults, {})
    \/ Return("h1")
    \/ Tick

SpecLocale == Init /\ [][NextLocale]_vars

\* One utterance after another, over the plugin chains and the language
\* keys the event comes with.
NextTrans ==
    \/ Receive("h1", {PlainContext, [PlainContext EXCEPT !.request_lang = "es-es"]})
    \/ PreprocessWith("h1", {}, UtteranceTransforms, MetadataTransforms)
    \/ HandleWith("h1", {PlainContext}, SkillMatches, {})
    \/ Return("h1")
    \/ Tick

SpecTrans == Init /\ [][NextTrans]_vars

\* The context events of the bus alone, on both sessions.
NextCtx ==
    \/ \E sid \in SessionIds, c \in CtxContexts, w \in CtxWords :
          add_context_upto(CtxDepth, sid, c, w)
    \/ \E sid \in SessionIds, c \in CtxContexts : handle_remove_context(sid, c)
    \/ \E sid \in SessionIds : handle_clear_context(sid)

SpecCtx == Init /\ [][NextCtx]_vars

\* -------------------------------------------------------------- properties

IntentEvents(h) == Count(emitted[h], IntentName)

FailureEvents(h) ==
    Count(emitted[h], "mycroft.audio.play_sound") + Count(emitted[h], "complete_intent_failure")

\* The stage loop of the utterance has ended without a fault.
LoopEnded(h) ==
    /\ pc[h] \in {"activate", "emit", "failure", "final"} \/ (pc[h] = "done" /\ info[h].fault \in {"none", "emit"})

\* Every stage of the list was called and declined.
Exhausted(h) ==
    /\ LoopEnded(h)
    /\ Len(calls[h]) = Len(pipeline[h])
    /\ \A i \in 1 .. Len(calls[h]) : ~calls[h][i].answer.found

\* h takes a step of handle_utterance.
Steps(h) == pc'[h] # pc[h]

\* The record the store holds for a session id, without its deadline.
Record(sid) == serialize(heap[sessions[sid]])

\* C1: the stages are called in the order of the session's list, no stage
\* is called after one that answered, and the match of the utterance is the
\* answer of the first stage that gave one.
C1_FirstMatchWins ==
    \A h \in Handlers :
        /\ Len(calls[h]) <= Len(pipeline[h])
        /\ \A i \in 1 .. Len(calls[h]) :
              /\ calls[h][i].stage = pipeline[h][i]
              /\ calls[h][i].answer.found => i = Len(calls[h])
        /\ LoopEnded(h) =>
              IF \E i \in 1 .. Len(calls[h]) : calls[h][i].answer.found
              THEN match[h] = calls[h][Len(calls[h])].answer
              ELSE ~match[h].found /\ Len(calls[h]) = Len(pipeline[h])

\* A stage declined, the next one answered, and a stage after it was left
\* uncalled.
C1_Witness ==
    \E h \in Handlers :
        /\ pc[h] = "done"
        /\ Len(pipeline[h]) = 3
        /\ Len(calls[h]) = 2
        /\ match[h].found
        /\ match[h].intent_service = pipeline[h][2]

\* C2: when every stage declined, the utterance ends with one play_sound
\* event, one complete_intent_failure event and no intent event.
C2_ExhaustionEmitsFailure ==
    \A h \in Handlers :
        (Exhausted(h) /\ pc[h] \in {"final", "done"} /\ info[h].fault = "none") =>
            /\ Count(emitted[h], "mycroft.audio.play_sound") = 1
            /\ Count(emitted[h], "complete_intent_failure") = 1
            /\ IntentEvents(h) = 0

C2_Witness ==
    \E h \in Handlers :
        /\ Exhausted(h)
        /\ pc[h] = "done"
        /\ info[h].fault = "none"
        /\ Len(calls[h]) = 3
        /\ FailureEvents(h) = 2

\* C3: an utterance whose stage raised ends with the failure events
\* published.
C3_StageFaultEmitsFailure ==
    \A h \in Handlers :
        (pc[h] = "done" /\ info[h].fault = "stage") =>
            /\ Count(emitted[h], "mycroft.audio.play_sound") >= 1
            /\ Count(emitted[h], "complete_intent_failure") >= 1

\* C4: no fault leaves handle_utterance, and the utterance handled after a
\* faulty one goes through every stage of its pipeline when all decline.
C4_FaultsAreContained ==
    \A h \in Handlers :
        /\ pc[h] # "crashed"
        /\ info[h].fault # "none" => pc[h] = "done"
        /\ (info[h].after_fault /\ pc[h] = "failure") => Exhausted(h)

\* After an utterance that ended in a fault, the next one was refused by
\* the three stages of its pipeline.
C4_Witness ==
    \E h \in Handlers :
        /\ info[h].after_fault
        /\ pc[h] = "failure"
        /\ Len(calls[h]) = 3

\* C5: once two utterances of the same client session, matched with
\* different skills, have both been handled, both skills are active in the
\* session.
C5_BothActivationsKept ==
    \A h1, h2 \in Handlers :
        (/\ h1 # h2
         /\ pc[h1] = "done" /\ pc[h2] = "done"
         /\ msg[h1].session_id = "s1" /\ msg[h2].session_id = "s1"
         /\ info[h1].activated /\ info[h2].activated
         /\ match[h1].skill_id # match[h2].skill_id) =>
            {match[h1].skill_id, match[h2].skill_id}
                \subseteq Range(heap[sessions["s1"]].active_skills)

\* C6: while an utterance is between the get and the touch of
\* _validate_session, the record of its session is changed by no other
\* handler.
InValidatePcs == {"v_check", "v_lang", "v_update", "v_sync", "v_touch"}

InValidate(h) == pc[h] \in InValidatePcs

C6_ValidateNotInterleaved ==
    [][\A h \in Handlers :
          (InValidate(h) /\ ~Steps(h)) =>
              Record(msg[h].session_id)' = Record(msg[h].session_id)]_vars

\* C7: a session whose pipeline names a stage the registry does not hold
\* has no stage called: the utterance ends in the configuration error.
C7_UnknownStageRunsNothing ==
    \A h \in Handlers :
        (\E i \in 1 .. Len(msg[h].session.pipeline) :
            msg[h].session.pipeline[i] \notin MatcherNames) =>
            /\ calls[h] = <<>>
            /\ pc[h] = "done"
            /\ info[h].fault = "config"

\* The unknown stage is not the first of the list.
C7_Witness ==
    \E h \in Handlers :
        /\ info[h].fault = "config"
        /\ msg[h].session.pipeline[1] \in MatcherNames
        /\ msg[h].session.pipeline[2] \notin MatcherNames

\* C8: _validate_session returns, for an expired default session, the
\* fresh record of the store, with no active skill, having synced once.
C8_ExpiredDefaultIsReset ==
    \A h \in Handlers :
        (pc[h] = "prepare" /\ msg[h].session_id = "default" /\ info[h].expired) =>
            /\ sessions["default"] = sess[h]
            /\ heap[sess[h]].active_skills = <<>>
            /\ heap[sess[h]].context = <<>>
            /\ Count(emitted[h], SyncEvent) = 1

\* The expired session is reset with the language changing too.
C8_Witness ==
    \E h \in Handlers :
        /\ pc[h] = "prepare"
        /\ msg[h].session_id = "default"
        /\ info[h].expired
        /\ lang[h] # ConfigLang
        /\ Count(emitted[h], SyncEvent) = 1

\* C9: on a default session that has not expired, _validate_session syncs
\* once and stores the lang when the lang differs, does not sync when it is
\* the same, and none of its steps changes the active skills or the context.
C9_State ==
    \A h \in Handlers :
        (pc[h] = "prepare" /\ msg[h].session_id = "default" /\ ~info[h].expired) =>
            /\ heap[sess[h]].lang = lang[h]
            /\ Count(emitted[h], SyncEvent) = IF info[h].lang0 = lang[h] THEN 0 ELSE 1

C9_Frame ==
    \A h \in Handlers :
        (/\ Steps(h)
         /\ pc[h] \in {"v_get"} \cup InValidatePcs
         /\ msg[h].session_id = "default"
         /\ IF pc[h] = "v_get" THEN TRUE
            ELSE IF pc[h] = "v_check" THEN ~expired(heap[sess[h]])
            ELSE ~info[h].expired) =>
            /\ Record("default")'.active_skills = Record("default").active_skills
            /\ Record("default")'.context = Record("default").context

\* C9: the counts of the broadcast and the frame of the validation steps,
\* for a default session that has not expired.
C9_UnexpiredDefault == []C9_State /\ [][C9_Frame]_vars

\* Skills are active and a context is set when the session is validated
\* with another lang; and with the same lang.
C9_Witness ==
    \E h \in Handlers :
        /\ pc[h] = "prepare"
        /\ msg[h].session_id = "default"
        /\ ~info[h].expired
        /\ info[h].lang0 # lang[h]
        /\ heap[sess[h]].active_skills # <<>>
        /\ heap[sess[h]].context # <<>>

\* C10: an utterance of a client session publishes no resync, and the steps
\* of its validation change nothing of the session record but the lang,
\* however long ago the session was touched.
C10_State ==
    \A h \in Handlers :
        msg[h].session_id # "default" =>
            /\ Count(emitted[h], SyncEvent) = 0
            /\ ~info[h].expired

C10_Frame ==
    \A h \in Handlers :
        (/\ Steps(h)
         /\ pc[h] \in {"v_get"} \cup InValidatePcs
         /\ msg[h].session_id # "default") =>
            /\ Record(msg[h].session_id)' =
                  [Record(msg[h].session_id) EXCEPT !.lang = Record(msg[h].session_id)'.lang]
            /\ Record("default")' = Record("default")

\* C10: no broadcast and no reset for a client session, and the frame of
\* its validation steps.
C10_ClientSessionKept == []C10_State /\ [][C10_Frame]_vars

\* A client session past its deadline, with an active skill, is validated.
C10_Witness ==
    \E h \in Handlers :
        /\ pc[h] = "v_touch"
        /\ msg[h].session_id = "s1"
        /\ expired(heap[sess[h]])
        /\ heap[sess[h]].active_skills # <<>>
        /\ heap[sess[h]].lang # ConfigLang

\* The signal of a context key is present and, once normalized, enabled.
Enabled(m, key) ==
    /\ m.context[key] # Absent
    /\ get_full_lang_code(m.context[key]) \in ValidLangs

\* What the event's keys should resolve to: the first enabled signal in the
\* order stt_lang, request_lang, detected_lang, or the default of the event.
Precedence(m) ==
    IF Enabled(m, "stt_lang") THEN get_full_lang_code(m.context.stt_lang)
    ELSE IF Enabled(m, "request_lang") THEN get_full_lang_code(m.context.request_lang)
    ELSE IF Enabled(m, "detected_lang") THEN get_full_lang_code(m.context.detected_lang)
    ELSE get_message_lang(m)

\* C12: the language of an utterance is the normalized value of the first
\* of stt_lang, request_lang, detected_lang that is present and enabled, and
\* the default language of the event when there is none.
C12_LangPrecedence ==
    \A h \in Handlers : pc[h] = "v_get" => lang[h] = Precedence(msg[h])

\* stt_lang and request_lang are both present and enabled, and differ.
C12_Witness ==
    \E h \in Handlers :
        /\ pc[h] = "v_get"
        /\ msg[h].context.stt_lang = "es-es"
        /\ msg[h].context.request_lang = "en"
        /\ lang[h] = "es-es"

\* C13: a signal that is not enabled is passed over without a fault, an
\* enabled signal of a lower precedence is still selected, the language is
\* always an enabled one or the default of the event, and disambiguate_lang
\* does not change the event.
C13_State ==
    \A h \in Handlers :
        /\ pc[h] = "v_get" =>
              /\ info[h].fault = "none"
              /\ lang[h] \in ValidLangs \cup {get_message_lang(msg[h])}
              /\ (\E i \in 1 .. 3 : Enabled(msg[h], LangKeys[i])) => lang[h] \in ValidLangs
              /\ (~Enabled(msg[h], "stt_lang") /\ Enabled(msg[h], "request_lang")) =>
                    lang[h] = get_full_lang_code(msg[h].context.request_lang)
        /\ pc[h] = "lang" => info[h].fault = "none"

C13_Frame ==
    \A h \in Handlers : (pc[h] = "lang" /\ Steps(h)) => msg'[h] = msg[h]

\* C13: the language of an utterance whose signals are not all enabled, and
\* the frame of disambiguate_lang.
C13_DisabledSignalIgnored == []C13_State /\ [][C13_Frame]_vars

\* stt_lang is present and not enabled, request_lang is enabled, and the
\* default of the event is another language.
C13_Witness ==
    \E h \in Handlers :
        /\ pc[h] = "v_get"
        /\ msg[h].context.stt_lang = "xx-xx"
        /\ msg[h].context.request_lang = "es-es"
        /\ msg[h].context.lang = ConfigLang
        /\ lang[h] = "es-es"

\* No id is twice in the stack.
NoDuplicate(stack) ==
    \A i, j \in 1 .. Len(stack) : stack[i] = stack[j] => i = j

\* C11: the active-skill stack of a session never holds an id twice, and
\* the id of the last activation is at its front.
C11_State ==
    /\ \A sid \in SessionIds : NoDuplicate(Record(sid).active_skills)
    /\ \A h \in Handlers :
          (info[h].activated /\ pc[h] \in {"emit", "final"}) =>
              Head(Record(msg[h].session_id).active_skills) = match[h].skill_id

\* The activation adds the id to the ids of the stack, and leaves the stack
\* as it is when the id is already at its front.
C11_Step ==
    \A h \in Handlers :
        (pc[h] = "activate" /\ Steps(h)) =>
            LET old == Record(msg[h].session_id).active_skills
                new == Record(msg[h].session_id)'.active_skills
            IN  /\ Range(new) = Range(old) \cup {match[h].skill_id}
                /\ (old # <<>> /\ Head(old) = match[h].skill_id) => new = old

\* C11: activation is idempotent by id, after any sequence of utterances.
C11_ActivationIdempotent == []C11_State /\ [][C11_Step]_vars

\* A skill that was in the stack behind another one has been activated.
C11_Witness ==
    \E h \in Handlers :
        /\ info[h].activated
        /\ pc[h] = "final"
        /\ match[h].skill_id = "skillB"
        /\ msg[h].session_id = "s1"
        /\ Record("s1").active_skills = <<"skillB", "skillA">>

\* The match of the utterance carries a skill id: the skill is active and at
\* the front of the stack, and the message is stamped, before the intent is
\* emitted; without a skill id nothing is activated or stamped.
C14_State ==
    \A h \in Handlers :
        /\ (pc[h] \in {"emit", "final"} /\ match[h].found /\ match[h].skill_id # "None") =>
              /\ info[h].activated
              /\ msg[h].skill_id = match[h].skill_id
              /\ Head(Record(msg[h].session_id).active_skills) = match[h].skill_id
        /\ (IntentEvents(h) > 0 /\ match[h].skill_id # "None") => info[h].activated
        /\ (~match[h].found \/ match[h].skill_id = "None") =>
              ~info[h].activated /\ msg[h].skill_id = "None"

\* h activates the skill of its match in the session sid.
Activates(h, sid) ==
    /\ pc[h] = "activate"
    /\ Steps(h)
    /\ msg[h].session_id = sid
    /\ match[h].skill_id # "None"

\* h resets the expired default session.
Resets(h, sid) ==
    /\ pc[h] = "v_check"
    /\ Steps(h)
    /\ sid = "default"
    /\ expired(heap[sess[h]])

StackChanges(sid) == Record(sid)'.active_skills # Record(sid).active_skills

\* C14 as stated: the skill of the match is activated before the intent is
\* emitted and stays at the front of the stack for the next utterance of the
\* session; nothing but the activation of a match with a skill id changes
\* the stack.
C14_OnlyActivationChangesStack ==
    []C14_State
    /\ [][\A sid \in SessionIds :
             StackChanges(sid) => \E h \in Handlers : Activates(h, sid)]_vars

\* C14, amended: the same, but for the default session past its deadline,
\* whose stack the validation of the next utterance empties.
C14_ActivationOrResetChangesStack ==
    []C14_State
    /\ [][\A sid \in SessionIds :
             StackChanges(sid) =>
                 \E h \in Handlers : Activates(h, sid) \/ Resets(h, sid)]_vars

\* A second skill has been activated, the intent is about to be emitted.
C14_Witness ==
    \E h \in Handlers :
        /\ pc[h] = "emit"
        /\ info[h].activated
        /\ msg[h].skill_id = "skillA"
        /\ Record(msg[h].session_id).active_skills = <<"skillA", "skillB">>

\* C15: a match without intent_type ends with no intent event and no
\* failure event: the utterance publishes nothing but the broadcasts of the
\* default session, and nothing at all on a client session.
C15_NoIntentTypeNoEvent ==
    \A h \in Handlers :
        (LoopEnded(h) /\ match[h].found /\ match[h].intent_type = "None") =>
            /\ IntentEvents(h) = 0
            /\ FailureEvents(h) = 0
            /\ \A i \in 1 .. Len(emitted[h]) : emitted[h][i].type = SyncEvent
            /\ msg[h].session_id # "default" => emitted[h] = <<>>

\* A stage handled the utterance of the default session by itself.
C15_Witness ==
    \E h \in Handlers :
        /\ pc[h] = "done"
        /\ info[h].fault = "none"
        /\ match[h].found
        /\ match[h].intent_type = "None"
        /\ msg[h].session_id = "default"
        /\ emitted[h] # <<>>

\* The broadcasts _validate_session made for the utterance.
ValidationSyncs(h) ==
    IF info[h].expired \/ info[h].lang0 # lang[h] THEN 1 ELSE 0

\* C17: an utterance of the default session that ends without a fault has
\* published, after its outcome, one broadcast, which holds the skill the
\* utterance activated.
C17_FinalSyncOnce ==
    \A h \in Handlers :
        (pc[h] = "done" /\ info[h].fault = "none" /\ msg[h].session_id = "default") =>
            LET last == emitted[h][Len(emitted[h])]
            IN  /\ Count(emitted[h], SyncEvent) = ValidationSyncs(h) + 1
                /\ last.type = SyncEvent
                /\ info[h].activated =>
                      /\ last.active_skills # <<>>
                      /\ Head(last.active_skills) = match[h].skill_id
                /\ Len(emitted[h]) > 1 + ValidationSyncs(h) =>
                      emitted[h][Len(emitted[h]) - 1].type # SyncEvent

\* The match path, with an activation and an intent event.
C17_Witness ==
    \E h \in Handlers :
        /\ pc[h] = "done"
        /\ info[h].fault = "none"
        /\ msg[h].session_id = "default"
        /\ info[h].activated
        /\ IntentEvents(h) = 1
        /\ Head(emitted[h][Len(emitted[h])].active_skills) = "skillA"

\* C18: an utterance never has both an intent event and a failure event,
\* never more than one intent event or one pair of failure events, the
\* intent event only with a match and the failure events only without; and
\* once its outcome is emitted no stage is called for it again.
C18_State ==
    \A h \in Handlers :
        /\ IntentEvents(h) <= 1
        /\ FailureEvents(h) \in {0, 2}
        /\ ~(IntentEvents(h) > 0 /\ FailureEvents(h) > 0)
        /\ IntentEvents(h) > 0 => match[h].found
        /\ FailureEvents(h) > 0 => ~match[h].found
        /\ IntentEvents(h) + FailureEvents(h) > 0 => pc[h] \in {"final", "done"}

C18_Step ==
    \A h \in Handlers :
        (IntentEvents(h) + FailureEvents(h) > 0 /\ pc'[h] # "idle") =>
            /\ calls'[h] = calls[h]
            /\ match'[h] = match[h]
            /\ IntentEvents(h)' = IntentEvents(h)
            /\ FailureEvents(h)' = FailureEvents(h)

\* C18: one outcome for one utterance, and no retry.
C18_OneOutcome == []C18_State /\ [][C18_Step]_vars

\* The second stage won and the intent is out; the third was never called.
C18_Witness ==
    \E h \in Handlers :
        /\ pc[h] = "done"
        /\ IntentEvents(h) = 1
        /\ Len(pipeline[h]) = 3
        /\ Len(calls[h]) = 2

\* The intent event of the utterance.
IntentEvent(h) ==
    emitted[h][CHOOSE i \in 1 .. Len(emitted[h]) : emitted[h][i].type = match[h].intent_type]

\* The utterance has ended with a match that names an intent.
IntentEmitted(h) ==
    /\ pc[h] \in {"final", "done"}
    /\ info[h].fault = "none"
    /\ match[h].found
    /\ match[h].intent_type # "None"

RoundTrip(sid, c, w) ==
    remove_context(inject_context(heap[sessions[sid]], entity(c, w)), c).context

HasContext(stack, c) == \E i \in 1 .. Len(stack) : stack[i].context = c

OtherContext(c, e) == e.context # c

\* The entries of the stack that are of another context than c.
Others(stack, c) == SelectSeq(stack, LAMBDA e : OtherContext(c, e))

C20_ClearEmptiesOneSession ==
    [][\A sid \in SessionIds :
          handle_clear_context(sid) =>
              /\ Record(sid)' = [Record(sid) EXCEPT !.context = <<>>]
              /\ \A other \in SessionIds \ {sid} : Record(other)' = Record(other)]_vars

\* One session has been cleared while the other holds two different keys.
C20_Witness ==
    /\ heap[sessions["default"]].context = <<>>
    /\ heap[sessions["s1"]].context = <<entity("kitchen", "there"), entity("hall", "there")>>

\* C23: the session _validate_session returns, default or not, has the lang
\* of the call and is not expired when the call returns.
C23_ReturnedSessionFresh ==
    [][\A h \in Handlers :
          (pc[h] = "v_touch" /\ Steps(h)) =>
              /\ pc'[h] = "prepare"
              /\ heap'[sess'[h]].lang = lang[h]
              /\ ~expired(heap'[sess'[h]])]_vars

\* A client session past its deadline has been validated with another lang.
C23_Witness ==
    \E h \in Handlers :
        /\ pc[h] = "prepare"
        /\ msg[h].session_id = "s1"
        /\ lang[h] = "es-es"
        /\ heap[sess[h]].lang = "es-es"
        /\ ~expired(heap[sess[h]])
        /\ expired(heap[sessions["default"]])

\* What the utterance plugins made of the utterances the event came with.
TransformedUtterances(h) == transform_utterances(info[h].tu, info[h].data0.utterances)

\* What the two plugin chains, one after the other, made of the context the
\* event came with.
TransformedContext(h) ==
    LET c == [info[h].context0 EXCEPT
                 !.lang = IF @ # Absent THEN get_full_lang_code(@) ELSE ConfigLang]
        l == IF info[h].tm.detected_lang # Absent THEN info[h].tm.detected_lang
             ELSE IF info[h].tu.detected_lang # Absent THEN info[h].tu.detected_lang
             ELSE c.detected_lang
    IN  [c EXCEPT !.detected_lang = l]

\* The stage run of the utterance has begun.
StagePcs == {"match", "activate", "emit", "failure", "final", "done", "crashed"}

\* C25: no stage is called before the session was validated with the
\* resolved language, every stage is called with the transformed utterances
\* and the resolved language, and no intent or failure event is published
\* before the stage run has ended.
C25_PhasesInOrder ==
    \A h \in Handlers :
        /\ calls[h] # <<>> =>
              /\ pc[h] \in StagePcs
              /\ lang[h] = Precedence([msg[h] EXCEPT !.context = TransformedContext(h)])
              /\ msg[h].session # NoSessionData
              /\ msg[h].session.lang = lang[h]
        /\ \A i \in 1 .. Len(calls[h]) :
              /\ calls[h][i].utterances = TransformedUtterances(h)
              /\ calls[h][i].lang = lang[h]
        /\ IntentEvents(h) + FailureEvents(h) > 0 => LoopEnded(h)

\* A stage was called with a language other than the configured one, in a
\* session that had another language before.
C25_Witness ==
    \E h \in Handlers :
        /\ Len(calls[h]) = 2
        /\ calls[h][2].lang = "es-es"
        /\ msg[h].session.lang = "es-es"
        /\ updated[h]
        /\ IntentEvents(h) = 1

\* C28: the stages are called with the output of the utterance plugins, the
\* utterances of the event are that output and the rest of its data is as it
\* came, the context of the event is the output of the metadata plugins
\* applied to that of the utterance plugins, and the language is resolved
\* from that context.
C28_TransformersFoldedBack ==
    \A h \in Handlers :
        /\ \A i \in 1 .. Len(calls[h]) :
              calls[h][i].utterances = TransformedUtterances(h)
        /\ pc[h] \in {"lang", "v_get", "prepare", "match"} \cup InValidatePcs =>
              /\ msg[h].data = [info[h].data0 EXCEPT !.utterances = TransformedUtterances(h)]
              /\ msg[h].context = TransformedContext(h)
        /\ pc[h] \in {"v_get", "prepare", "match"} \cup InValidatePcs =>
              lang[h] = Precedence([msg[h] EXCEPT !.context = TransformedContext(h)])

\* The utterance plugins rewrote the utterances and tagged a language, the
\* metadata plugins tagged another one, and a stage was called.
C28_Witness ==
    \E h \in Handlers :
        /\ info[h].tu = Transform("hola", "es-es")
        /\ info[h].tm = Transform(Absent, "xx-xx")
        /\ info[h].context0.request_lang = Absent
        /\ msg[h].context.detected_lang = "xx-xx"
        /\ lang[h] = "en-us"
        /\ Len(calls[h]) = 1
        /\ calls[h][1].utterances = "hola"

\* A language the utterance plugins detected is the language of the
\* utterance.
C28_DetectedLangUsed ==
    \E h \in Handlers :
        /\ info[h].tu = Transform("hola", "es-es")
        /\ info[h].tm = NoTransform
        /\ lang[h] = "es-es"
        /\ calls[h] # <<>>

\* C26: the snapshot of the session the event carries to the stages has the
\* resolved language and, where this utterance found the default session
\* expired, is the fresh record, with no active skill.
C26_SnapshotAfterValidation ==
    \A h \in Handlers :
        (msg[h].session # NoSessionData /\ pc[h] \in StagePcs) =>
            /\ msg[h].session.lang = lang[h]
            /\ (msg[h].session_id = "default" /\ info[h].expired) =>
                   msg[h].session.active_skills = <<>>

\* The session ids whose record a step changes.
Changed == {sid \in SessionIds : Record(sid)' # Record(sid)}

IsQuery(h) == msg[h].type = "intent.service.intent.get"

Replies(h) == Count(emitted[h], "intent.service.intent.reply")

\* C22: once a stage has returned a match, no step of the handler changes a
\* field of it, its payload included.
C22_MatchImmutable ==
    [][\A h \in Handlers :
          (match[h].found /\ Steps(h) /\ pc[h] # "done") => match'[h] = match[h]]_vars

\* The indices of a pipeline list whose name is not skipped.
KeptIndices(list, skips) == {i \in 1 .. Len(list) : list[i] \notin skips}

\* q holds the names of list outside skips, each once for each place it has
\* in list, in the order of list.
IsFiltered(q, list, skips) ==
    LET kept == KeptIndices(list, skips)
        nth(j) == CHOOSE i \in kept : Cardinality({k \in kept : k <= i}) = j
    IN  /\ Len(q) = Cardinality(kept)
        /\ \A j \in 1 .. Len(q) : q[j] = list[nth(j)]

\* C24: the stage list of a dispatch is the pipeline list the session holds
\* at that dispatch, without the skipped names and in the order of the list.
C24_PipelineFromSession ==
    [][\A h \in Handlers :
          /\ (pc[h] = "prepare" /\ pc'[h] \in {"match", "failure"}) =>
                 IsFiltered(pipeline'[h], heap[sess[h]].pipeline, {})
          /\ (pc[h] = "g_get" /\ pc'[h] \in {"g_match", "g_fail"}) =>
                 IsFiltered(pipeline'[h], heap[sessions[msg[h].session_id]].pipeline,
                            {"converse", "fallback_high", "fallback_medium",
                             "fallback_low"})]_vars

\* The default session was given another list than the one it is created
\* with and a query is dispatched over it, converse left out, while the
\* client's session has a list of its own.
C24_Witness ==
    \E h \in Handlers :
        /\ IsQuery(h) /\ pc[h] = "g_match"
        /\ msg[h].session_id = "default"
        /\ heap[sessions["default"]].pipeline = <<"padatious_high", "converse", "padacioso_high">>
        /\ pipeline[h] = <<"padatious_high", "padacioso_high">>
        /\ heap[sessions["s1"]].pipeline = <<"fallback_high", "adapt", "padatious_low">>

\* An utterance is dispatched over the list the session was given since the
\* utterance before.
C24_NextUtterance ==
    \E h \in Handlers :
        /\ ~IsQuery(h) /\ pc[h] = "match"
        /\ msg[h].session_id = "s1"
        /\ pipeline[h] = <<"fallback_high", "adapt", "padatious_low">>

\* The padacioso name of the same priority as a padatious name.
Padacioso(k) ==
    CASE k = "padatious_high" -> "padacioso_high"
      [] k = "padatious_medium" -> "padacioso_medium"
      [] k = "padatious_low" -> "padacioso_low"

\* C27: where padatious is not installed, a padatious stage name stands for
\* what the padacioso name of the same priority stands for, in every stage
\* call; and the service is the same from one dispatch to the next.
C27_PadatiousFallback ==
    /\ [](\A h \in Handlers : \A i \in 1 .. Len(calls[h]) :
              LET k == calls[h][i].stage
              IN  (padatious_service = "None"
                     /\ k \in {"padatious_high", "padatious_medium", "padatious_low"}) =>
                      calls[h][i].matcher = matchers(Padacioso(k)))
    /\ [][padatious_service' = padatious_service]_vars

\* Without padatious, a query was put to the padatious_high stage and then
\* to the padacioso_high stage.
C27_Witness ==
    \E h \in Handlers :
        /\ padatious_service = "None"
        /\ Len(calls[h]) = 2
        /\ calls[h][1].stage = "padatious_high"
        /\ calls[h][2].stage = "padacioso_high"
        /\ calls[h][1].matcher = calls[h][2].matcher

\* The answer of the first stage that matched, if any.
FirstMatch(h) ==
    LET found == {i \in 1 .. Len(calls[h]) : calls[h][i].answer.found}
    IN  IF found = {} THEN NoMatch
        ELSE calls[h][CHOOSE i \in found : \A j \in found : i <= j].answer

\* C29: a query that was handled without a fault has one intent.service.intent.reply, with
\* the intent of the first stage that matched, or with no intent where every
\* stage declined.
C29_OneReply ==
    \A h \in Handlers :
        (IsQuery(h) /\ pc[h] = "done" /\ info[h].fault = "none") =>
            /\ Replies(h) = 1
            /\ emitted[h][1].data.intent_name = FirstMatch(h).intent_type

\* C30: the handling of a query calls no converse and no fallback stage,
\* activates no skill, publishes nothing but its reply, and leaves the
\* record and the deadline of every session as they were.
C30_QueryHasNoSideEffects ==
    /\ [](\A h \in Handlers : IsQuery(h) =>
              /\ \A i \in 1 .. Len(calls[h]) :
                    calls[h][i].stage \notin
                        {"converse", "fallback_high", "fallback_medium", "fallback_low"}
              /\ ~info[h].activated
              /\ Len(emitted[h]) = Replies(h))
    /\ [][\A h \in Handlers :
              (IsQuery(h) /\ Steps(h)) =>
                  \A sid \in SessionIds :
                      /\ Record(sid)' = Record(sid)
                      /\ heap'[sessions'[sid]].age = heap[sessions[sid]].age]_vars

\* A query on a session that has an active skill, a language of its own and
\* a list with converse and a fallback in it was answered with an intent.
C30_Witness ==
    \E h \in Handlers :
        /\ IsQuery(h) /\ pc[h] = "done" /\ Replies(h) = 1
        /\ match[h].skill_id = "skillA"
        /\ Len(calls[h]) = 2
        /\ Record(msg[h].session_id).active_skills = <<"skillB">>
        /\ "converse" \in Range(Record(msg[h].session_id).pipeline)
        /\ expired(heap[sessions[msg[h].session_id]])

\* What an utterance that ran into no fault ends with: the session validated
\* with the language, the stages run, and the intent or the failure out.
Dispatched(h) ==
    /\ msg[h].session.lang = lang[h]
    /\ Len(calls[h]) = Len(pipeline[h]) \/ match[h].found
    /\ IF match[h].found
       THEN /\ FailureEvents(h) = 0
            /\ IntentEvents(h) = IF match[h].intent_type # "None" THEN 1 ELSE 0
       ELSE FailureEvents(h) = 2 /\ IntentEvents(h) = 0

\* C31: an utterance for which setup_locale raised goes on from the language
\* step to the validation with the language resolved, is never ended by that
\* fault, and ends dispatched as any other; the only utterance that does not
\* is the one whose session names a stage the registry does not hold.
C31_LocaleFaultIgnored ==
    /\ [](\A h \in Handlers :
              /\ info[h].fault # "locale"
              /\ (info[h].locale = "failed" /\ pc[h] = "done") =>
                    IF info[h].fault = "none" THEN Dispatched(h)
                    ELSE /\ info[h].fault = "config"
                         /\ Range(msg[h].session.pipeline) \ MatcherNames # {})
    /\ [][\A h \in Handlers :
              (pc[h] = "lang" /\ Steps(h)) =>
                  /\ pc'[h] = "v_get"
                  /\ lang'[h] = Precedence(msg[h])]_vars

\* setup_locale raised for an utterance in Spanish on a session that had
\* another language, and the intent of the utterance is out.
C31_Witness ==
    \E h \in Handlers :
        /\ info[h].locale = "failed"
        /\ pc[h] = "done"
        /\ lang[h] = "es-es"
        /\ updated[h]
        /\ IntentEvents(h) = 1
        /\ info[h].activated

\* setup_locale raised and the utterance ended in the failure events.
C31_FailureAfterLocaleFault ==
    \E h \in Handlers :
        /\ info[h].locale = "failed"
        /\ pc[h] = "done"
        /\ FailureEvents(h) = 2

====
